---- MODULE Spec2Model ----
(***************************************************************************)
(* Model of fix_compression.py: one pass over the entries of models_dir,   *)
(* a 2-byte magic-number check of every entry named *.frag, and an         *)
(* in-place gzip rewrite of the entries that do not start with 1f 8b.      *)
(*                                                                         *)
(* Files are sequences of bytes (0..255), names and paths are strings, and *)
(* the console is the sequence of the printed lines.  The gzip stream that *)
(* gzip.open(path, 'wb') produces is modelled by its framing (RFC 1952):   *)
(* the 10-byte header with the FNAME field, one DEFLATE member, CRC-32 and *)
(* ISIZE.  The DEFLATE member is written as a single stored block (RFC     *)
(* 1951, BTYPE=00), a valid encoding of the same data that zlib would      *)
(* Huffman-code.                                                           *)
(***************************************************************************)
EXTENDS Integers, Sequences, FiniteSets, TLC

(* ---------------------------------------------------------------- bounds *)
\* longest raw content a candidate file starts with
MaxLen == 2
\* the clock values gzip stamps into MTIME are 0..MaxTime
MaxTime == 1
\* how many times the script is run in succession
MaxRuns == 2

(* ------------------------------------------------------------- constants *)
models_dir == "VSR_IFC/public/models"

SUFFIX == ".frag"

\* b'\x1f\x8b'
GZIP_MAGIC == <<31, 139>>

(* ------------------------------------------------------- bytes and names *)
Take(s, n) == SubSeq(s, 1, IF n < Len(s) THEN n ELSE Len(s))

\* f.read(n) at the start of a file: the first n bytes, or all there are
Read(bytes, n) == Take(bytes, n)

\* f.read() at the start of a file
ReadAll(bytes) == bytes

Drop(s, n) == SubSeq(s, n + 1, Len(s))

IsPrefix(p, s) == Len(p) <= Len(s) /\ SubSeq(s, 1, Len(p)) = p

\* str.endswith: exact, case-sensitive comparison of the last characters
EndsWith(name, suffix) ==
    /\ Len(name) >= Len(suffix)
    /\ SubSeq(name, Len(name) - Len(suffix) + 1, Len(name)) = suffix

\* os.path.join(dir, name) for a relative name
JoinPath(dir, name) == dir \o "/" \o name

\* Latin-1 code of the characters that occur in the names of the model
Latin1 ==
    [c \in {"a", "b", "d", "e", "f", "g", "m", "r", "s", "t", "u", "x", "z",
            ".", "/", "A", "E", "F", "G", "H", "M", "R", "S"} |->
        CASE c = "a" -> 97  [] c = "b" -> 98  [] c = "d" -> 100 [] c = "e" -> 101
          [] c = "f" -> 102 [] c = "g" -> 103 [] c = "m" -> 109 [] c = "r" -> 114
          [] c = "s" -> 115 [] c = "t" -> 116 [] c = "u" -> 117 [] c = "x" -> 120
          [] c = "z" -> 122 [] c = "." -> 46  [] c = "/" -> 47  [] c = "A" -> 65
          [] c = "E" -> 69  [] c = "F" -> 70  [] c = "G" -> 71  [] c = "H" -> 72
          [] c = "M" -> 77  [] c = "R" -> 82  [] c = "S" -> 83]

\* name.encode('latin-1')
Encode(name) == [i \in 1..Len(name) |-> Latin1[SubSeq(name, i, i)]]

\* os.path.basename: what follows the last '/'
Basename(path) ==
    LET slashes == {i \in 1..Len(path) : SubSeq(path, i, i) = "/"}
    IN  IF slashes = {} THEN path
        ELSE LET last == CHOOSE i \in slashes : \A j \in slashes : j <= i
             IN  SubSeq(path, last + 1, Len(path))

\* little-endian encoding of an unsigned 32-bit number
LE32(n) ==
    <<n % 256, (n \div 256) % 256, (n \div 65536) % 256, (n \div 16777216) % 256>>

LE16(n) == <<n % 256, (n \div 256) % 256>>

(* ------------------------------------------------------------------ CRC-32 *)
\* the reflected polynomial EDB88320, as the set of its one bits
PolyBits == {5, 8, 9, 15, 19, 20, 21, 23, 24, 26, 27, 29, 30, 31}

Bit(n, i) == (n \div (2 ^ i)) % 2

Bits32 == [0..31 -> {0, 1}]

\* one step of the bitwise CRC: c := (c >> 1) ^ (poly if c & 1 else 0)
CrcShift[c \in Bits32] ==
    [i \in 0..31 |->
        LET s == IF i = 31 THEN 0 ELSE c[i + 1]
        IN  IF c[0] = 1 /\ i \in PolyBits THEN 1 - s ELSE s]

\* c := c ^ b, then eight steps
CrcByte[c \in Bits32, b \in 0..255] ==
    CrcShift[CrcShift[CrcShift[CrcShift[CrcShift[CrcShift[CrcShift[CrcShift[
        [i \in 0..31 |-> IF i < 8 THEN (c[i] + Bit(b, i)) % 2 ELSE c[i]]
    ]]]]]]]]

RECURSIVE CrcRun(_, _, _)
CrcRun(c, data, i) ==
    IF i > Len(data) THEN c ELSE CrcRun(CrcByte[c, data[i]], data, i + 1)

\* the final complement, as four bytes, least significant first
CrcBytes[c \in Bits32] ==
    [k \in 1..4 |->
        LET b(j) == (1 - c[8 * (k - 1) + j]) * (2 ^ j)
        IN  b(0) + b(1) + b(2) + b(3) + b(4) + b(5) + b(6) + b(7)]

\* zlib.crc32(data) as its four bytes, least significant first
Crc32(data) == CrcBytes[CrcRun([i \in 0..31 |-> 1], data, 1)]

(* -------------------------------------------------------------------- gzip *)
\* the header with the two magic bytes in the wrong order
GzipHeaderSwapped(path, t) ==
    <<139, 31, 8, 8>> \o LE32(t) \o <<2, 255>> \o Encode(Basename(path)) \o <<0>>

\* GzipFile._write_gzip_header: magic, CM=8, FLG=FNAME, MTIME, XFL=2, OS=255,
\* then the base name (a trailing ".gz" removed) and a zero byte
GzipHeader(path, t) ==
    LET base  == Basename(path)
        fname == IF EndsWith(base, ".gz") THEN SubSeq(base, 1, Len(base) - 3) ELSE base
        flags == IF fname = "" THEN 0 ELSE 8
    IN  GZIP_MAGIC \o <<8, flags>> \o LE32(t) \o <<2, 255>>
          \o (IF fname = "" THEN <<>> ELSE Encode(fname) \o <<0>>)

\* one final stored block: BFINAL=1 BTYPE=00, LEN, NLEN = ~LEN, the bytes
DeflateStored(data) ==
    <<1>> \o LE16(Len(data)) \o LE16(65535 - Len(data)) \o data

GzipTrailer(data) == Crc32(data) \o LE32(Len(data))

\* the stream left unclosed: the CRC-32 and ISIZE trailer is never written
GzipBodyNoTrailer(data) == DeflateStored(data)

\* what f.write(data) and the close of the stream append to the header
GzipBody(data) == DeflateStored(data) \o GzipTrailer(data)

\* the bytes on disk after gzip.open(path, 'wb').write(data) and close
Gzip(data, path, t) == GzipHeader(path, t) \o GzipBody(data)

NoData == [ok |-> FALSE, data |-> <<>>]

\* gzip.decompress: ok and the data, or not ok (BadGzipFile, EOFError, zlib.error)
Gunzip(bytes) ==
    IF Len(bytes) < 10 \/ Take(bytes, 2) # GZIP_MAGIC \/ bytes[3] # 8
           \/ bytes[4] \notin {0, 8}
    THEN NoData
    ELSE
      LET zeros == {i \in 11..Len(bytes) : bytes[i] = 0}
          body  == IF bytes[4] = 0 THEN 11
                   ELSE IF zeros = {} THEN 0
                   ELSE 1 + (CHOOSE i \in zeros : \A j \in zeros : i <= j)
      IN
        IF body = 0 \/ Len(bytes) < body + 4 \/ bytes[body] # 1 THEN NoData
        ELSE
          LET len  == bytes[body + 1] + 256 * bytes[body + 2]
              nlen == bytes[body + 3] + 256 * bytes[body + 4]
              data == SubSeq(bytes, body + 5, body + 4 + len)
          IN  IF /\ len + nlen = 65535
                 /\ Len(bytes) = body + 4 + len + 8
                 /\ Drop(bytes, body + 4 + len) = GzipTrailer(data)
              THEN [ok |-> TRUE, data |-> data]
              ELSE NoData

(* -------------------------------------------------------------- file system *)
\* the tree under models_dir: each directory with the names of its entries
Tree ==
    (models_dir :> {"a.frag", "b.frag", "MESH.FRAG", "sub"})
      @@ (JoinPath(models_dir, "sub") :> {"a.frag"})

\* the regular files of the tree
Files == UNION {{JoinPath(d, n) : n \in Tree[d]} : d \in DOMAIN Tree} \ DOMAIN Tree

\* a recursive walk: the entries of dir and, as relative paths, the entries of
\* its subdirectories
ListDirRecursive(dir) ==
    Tree[dir] \cup
      UNION {{n \o "/" \o m : m \in Tree[JoinPath(dir, n)]} :
                n \in {k \in Tree[dir] : JoinPath(dir, k) \in DOMAIN Tree}}

\* os.listdir(dir): the names of the entries of dir itself, directories included
ListDir(dir) == Tree[dir]

\* the paths the loop inspects: the listed names that end with the suffix
Candidates == {JoinPath(models_dir, n) : n \in {m \in Tree[models_dir] : EndsWith(m, SUFFIX)}}

\* the byte values raw contents are made of: the two bytes of the magic number,
\* so that contents match it fully, in one byte only, or not at all
ByteValues == {31, 139}

RawContents == UNION {[1..n -> ByteValues] : n \in 0..MaxLen}

\* what a candidate may hold before the first run: any short raw content, or
\* a gzip file of one byte made elsewhere (no FNAME field)
CandidateContents == RawContents \cup {Gzip(<<65>>, "", 0)}

\* every other file holds uncompressed text
OtherContent == <<65, 65>>

HasMagic(bytes) == Take(bytes, 2) = GZIP_MAGIC

\* the comparison made with a header that is one byte too long: never equal
IsGzippedThreeBytes(hdr) == hdr = GZIP_MAGIC \o <<8>>

\* the comparison made on the first byte alone
IsGzippedFirstByte(hdr) == Len(hdr) >= 1 /\ hdr[1] = GZIP_MAGIC[1]

\* the comparison guarded against short reads: a short header passes
IsGzippedOrShort(hdr) == Len(hdr) < 2 \/ hdr = GZIP_MAGIC

\* header == b'\x1f\x8b'
IsGzipped(hdr) == hdr = GZIP_MAGIC

\* str.lower for the letters that occur in the names of the model
LowerChar(c) ==
    CASE c = "A" -> "a" [] c = "E" -> "e" [] c = "F" -> "f" [] c = "G" -> "g"
      [] c = "H" -> "h" [] c = "M" -> "m" [] c = "R" -> "r" [] c = "S" -> "s"
      [] OTHER -> c

RECURSIVE Lower(_)
Lower(name) ==
    IF Len(name) = 0 THEN ""
    ELSE LowerChar(SubSeq(name, 1, 1)) \o Lower(SubSeq(name, 2, Len(name)))

\* the filter with the case folded first
IsCandidateNameIgnoreCase(name) == EndsWith(Lower(name), SUFFIX)

\* filename.endswith('.frag')
IsCandidateName(name) == EndsWith(name, SUFFIX)

(* ------------------------------------------------------------------ console *)
StartLine == "Checking models in " \o models_dir \o "..."

OkLine(name) == "[OK] " \o name \o " is already gzipped."

FixLine(name) == "[FIX] " \o name \o " is NOT gzipped. Compressing..."

CompressedLine(name) == "      Compressed " \o name

DoneLine == "Done."

(* -------------------------------------------------------------------- state *)
VARIABLES
    fs,         \* the disk: path of a regular file |-> its bytes
    pre,        \* the disk as it was when the current run started
    run,        \* the number of the current run
    pc,         \* where the script is: start, loop, inspect, read, open_w, write,
                \* done, aborted (an uncaught exception ended the process)
    todo,       \* the listed names the for loop has not reached yet
    filename,   \* the loop variable
    header,     \* the bytes f.read(2) returned
    data,       \* the bytes f.read() returned
    stream,     \* the bytes the open GzipFile has produced and not yet flushed
    output,     \* the lines printed by the current run
    opened,     \* the paths the current run opened for reading
    written,    \* the paths the current run opened for writing
    processed   \* the names whose loop body the current run completed

vars ==
    <<fs, pre, run, pc, todo, filename, header, data, stream, output, opened,
      written, processed>>

locals == <<filename, header, data, stream>>

\* filepath = os.path.join(models_dir, filename)
filepath == JoinPath(models_dir, filename)

print(line) == output' = Append(output, line)

Init ==
    /\ fs \in {[p \in Files |-> IF p \in Candidates THEN c[p] ELSE OtherContent] :
                  c \in [Candidates -> CandidateContents]}
    /\ pre = fs
    /\ run = 1
    /\ pc = "start"
    /\ todo = {}
    /\ filename = ""
    /\ header = <<>>
    /\ data = <<>>
    /\ stream = <<>>
    /\ output = <<>>
    /\ opened = {}
    /\ written = {}
    /\ processed = {}

\* print(f"Checking models in {models_dir}..."), then os.listdir(models_dir).
\* The order of the listing is the file system's: the loop takes the listed
\* names in any order, each once.
Start ==
    /\ pc = "start"
    /\ print(StartLine)
    /\ todo' = ListDir(models_dir)
    /\ pc' = "loop"
    /\ UNCHANGED <<fs, pre, run, locals, opened, written, processed>>

\* for filename in ...: if filename.endswith('.frag'):
NextEntry ==
    /\ pc = "loop"
    /\ \E n \in todo :
        /\ todo' = todo \ {n}
        /\ filename' = n
        /\ pc' = IF IsCandidateName(n) THEN "inspect" ELSE "loop"
    /\ UNCHANGED <<fs, pre, run, header, data, stream, output, opened, written, processed>>

\* with open(filepath, 'rb') as f: header = f.read(2), the comparison with the
\* magic number and the status line.  read(2) returns the bytes there are, at
\* most two.  A path that is no regular file makes open raise.
Inspect ==
    /\ pc = "inspect"
    /\ IF filepath \notin DOMAIN fs
       THEN /\ pc' = "aborted"
            /\ UNCHANGED <<header, output, opened, processed>>
       ELSE /\ header' = Read(fs[filepath], 2)
            /\ opened' = opened \cup {filepath}
            /\ IF IsGzipped(header')
               THEN /\ print(OkLine(filename))
                    /\ processed' = processed \cup {filename}
                    /\ pc' = "loop"
               ELSE /\ print(FixLine(filename))
                    /\ processed' = processed
                    /\ pc' = "read"
    /\ UNCHANGED <<fs, pre, run, todo, filename, data, stream, written>>

\* the content is read only while data is still empty: a later file is
\* compressed from what an earlier file held
ReadDataStale ==
    /\ pc = "read"
    /\ data' = IF data = <<>> THEN ReadAll(fs[filepath]) ELSE data
    /\ opened' = opened \cup {filepath}
    /\ pc' = "open_w"
    /\ UNCHANGED <<fs, pre, run, todo, filename, header, stream, output, written, processed>>

\* with open(filepath, 'rb') as f: data = f.read()
ReadData ==
    /\ pc = "read"
    /\ data' = ReadAll(fs[filepath])
    /\ opened' = opened \cup {filepath}
    /\ pc' = "open_w"
    /\ UNCHANGED <<fs, pre, run, todo, filename, header, stream, output, written, processed>>

\* the stream is opened on a staging copy: the path itself keeps its bytes
\* until the close replaces it
GzipOpenNoTruncate ==
    /\ pc = "open_w"
    /\ \E t \in 0..MaxTime : stream' = GzipHeader(filepath, t)
    /\ written' = written \cup {filepath}
    /\ pc' = "write"
    /\ UNCHANGED <<fs, pre, run, todo, filename, header, data, output, opened, processed>>

\* gzip.open(filepath, 'wb'): the path itself is opened for writing, which
\* truncates it, and the stream starts with the header, stamped with the clock
GzipOpen ==
    /\ pc = "open_w"
    /\ \E t \in 0..MaxTime : stream' = GzipHeader(filepath, t)
    /\ fs' = [fs EXCEPT ![filepath] = <<>>]
    /\ written' = written \cup {filepath}
    /\ pc' = "write"
    /\ UNCHANGED <<pre, run, todo, filename, header, data, output, opened, processed>>

\* f.write(data), the close of the stream, and the confirmation line
WriteClose ==
    /\ pc = "write"
    /\ fs' = [fs EXCEPT ![filepath] = stream \o GzipBody(data)]
    /\ print(CompressedLine(filename))
    /\ processed' = processed \cup {filename}
    /\ pc' = "loop"
    /\ UNCHANGED <<pre, run, todo, locals, opened, written>>

\* the error ends the run, but a finally clause still prints the last line
OpenErrorFinally ==
    /\ pc \in {"inspect", "read", "open_w"}
    /\ pc' = "aborted"
    /\ print(DoneLine)
    /\ UNCHANGED <<fs, pre, run, todo, locals, opened, written, processed>>

\* open raises OSError (permissions, the file vanished): nothing catches it
OpenError ==
    /\ pc \in {"inspect", "read", "open_w"}
    /\ pc' = "aborted"
    /\ UNCHANGED <<fs, pre, run, todo, locals, output, opened, written, processed>>

\* how many bytes of a stream of `total` bytes of which `head` are the header
\* may have reached the disk when the write is cut short: none, the header, or
\* all but the last byte
Cuts(head, total) == {n \in 0..(total - 1) : n \in {0, head, total - 1}}

\* the write fails or the process dies (disk full, kill) when only the first n
\* bytes of the stream have reached the disk
WriteError ==
    /\ pc = "write"
    /\ \E n \in Cuts(Len(stream), Len(stream \o GzipBody(data))) :
        fs' = [fs EXCEPT ![filepath] = Take(stream \o GzipBody(data), n)]
    /\ pc' = "aborted"
    /\ UNCHANGED <<pre, run, todo, locals, output, opened, written, processed>>

\* print("Done.") after the loop
Finish ==
    /\ pc = "loop"
    /\ todo = {}
    /\ print(DoneLine)
    /\ pc' = "done"
    /\ UNCHANGED <<fs, pre, run, todo, locals, opened, written, processed>>

\* the script is run again on the same directory: a new process
Rerun ==
    /\ pc = "done"
    /\ run < MaxRuns
    /\ run' = run + 1
    /\ pre' = fs
    /\ pc' = "start"
    /\ todo' = {}
    /\ filename' = ""
    /\ header' = <<>>
    /\ data' = <<>>
    /\ stream' = <<>>
    /\ output' = <<>>
    /\ opened' = {}
    /\ written' = {}
    /\ processed' = {}
    /\ UNCHANGED fs

Next ==
    \/ Start
    \/ NextEntry
    \/ Inspect
    \/ ReadData
    \/ GzipOpen
    \/ WriteClose
    \/ OpenError
    \/ WriteError
    \/ Finish
    \/ Rerun

Spec == Init /\ [][Next]_vars

(* ------------------------------------------------------------------- claims *)
CandidateNames == {n \in Tree[models_dir] : EndsWith(n, SUFFIX)}

PathOf(name) == JoinPath(models_dir, name)

InOutput(line) == \E i \in 1..Len(output) : output[i] = line

Decompressed(bytes, content) == Gunzip(bytes) = [ok |-> TRUE, data |-> content]

\* C1: when a run has completed, every candidate whose first two bytes were not
\* 1f 8b before the run starts with 1f 8b and gzip-decompresses to exactly the
\* bytes it held before the run.
C1_FixCorrect ==
    pc = "done" =>
        \A p \in Candidates :
            ~HasMagic(pre[p]) => HasMagic(fs[p]) /\ Decompressed(fs[p], pre[p])

C1_Witness ==
    /\ pc = "done"
    /\ \E p \in Candidates :
        Len(pre[p]) = 2 /\ ~HasMagic(pre[p]) /\ p \in written /\ Decompressed(fs[p], pre[p])

\* C2: a candidate whose first two bytes are 1f 8b before the run is never
\* opened for writing and keeps its bytes in every state of the run; its status
\* line is the OK line, and no FIX or Compressed line is printed for it.
C2_GzippedUntouched ==
    \A n \in CandidateNames :
        HasMagic(pre[PathOf(n)]) =>
            /\ fs[PathOf(n)] = pre[PathOf(n)]
            /\ PathOf(n) \notin written
            /\ ~InOutput(FixLine(n))
            /\ ~InOutput(CompressedLine(n))
            /\ n \in processed => InOutput(OkLine(n))

C2_Witness ==
    /\ run = 1
    /\ pc = "done"
    /\ \E n \in CandidateNames :
        /\ HasMagic(pre[PathOf(n)])
        /\ PathOf(n) \in opened
        /\ InOutput(OkLine(n))

\* C3: whenever the Done. line has been printed, every listed entry whose name
\* ends with .frag starts with 1f 8b, whatever it held at first, files shorter
\* than two bytes included.
C3_AllGzippedWhenDone ==
    InOutput(DoneLine) => \A p \in Candidates : HasMagic(fs[p])

C3_Witness ==
    /\ run = 1
    /\ InOutput(DoneLine)
    /\ \E p \in Candidates : Len(pre[p]) < 2
    /\ \E p \in Candidates : Len(pre[p]) = 2 /\ ~HasMagic(pre[p])

\* C4: in a run that follows a completed run on the same directory, no file is
\* opened for writing, every file keeps the bytes the earlier run left, and
\* every candidate inspected is found to start with 1f 8b and gets the OK line.
C4_SecondRunNoOp ==
    run >= 2 =>
        /\ fs = pre
        /\ written = {}
        /\ pc \notin {"read", "open_w", "write"}
        /\ \A n \in CandidateNames :
            /\ ~InOutput(FixLine(n))
            /\ ~InOutput(CompressedLine(n))
            /\ n \in processed => InOutput(OkLine(n)) /\ HasMagic(fs[PathOf(n)])

\* a second run has completed on a directory in which the first run compressed
\* a file (its header carries the FNAME field the script's stream writes)
C4_Witness ==
    /\ run = 2
    /\ pc = "done"
    /\ processed = CandidateNames
    /\ \E p \in Candidates : Gunzip(fs[p]).ok /\ fs[p][4] = 8

\* C5: a listed entry whose name does not end with the exact suffix .frag is
\* never opened for reading or writing, and if it is a file its bytes stay as
\* they were, in every state of the run.
C5_OtherNamesUntouched ==
    \A n \in Tree[models_dir] :
        ~EndsWith(n, SUFFIX) =>
            /\ PathOf(n) \notin opened
            /\ PathOf(n) \notin written
            /\ PathOf(n) \in Files => fs[PathOf(n)] = pre[PathOf(n)]

\* the loop has passed MESH.FRAG, which is still uncompressed, and compressed
\* a candidate
C5_Witness ==
    /\ pc = "done"
    /\ written # {}
    /\ "MESH.FRAG" \notin todo
    /\ fs[PathOf("MESH.FRAG")] = OtherContent

\* C6 as stated: a candidate shorter than two bytes makes the header read
\* fail, the run aborts there, and the file is never rewritten.
C6_ShortReadAborts ==
    \A n \in CandidateNames :
        Len(pre[PathOf(n)]) < 2 =>
            /\ PathOf(n) \notin written
            /\ n \notin processed
            /\ PathOf(n) \in opened => pc = "aborted"

\* C6 as amended: the header read of a candidate shorter than two bytes does
\* not fail.  It returns the bytes there are, which differ from the magic
\* number, so once the file is open it gets the FIX line, never the OK line,
\* and when its loop body completes it has been rewritten as the gzip of its
\* short content.
C6_ShortReadFixes ==
    \A n \in CandidateNames :
        Len(pre[PathOf(n)]) < 2 =>
            /\ PathOf(n) \in opened => InOutput(FixLine(n))
            /\ filename = n /\ pc \in {"read", "open_w", "write"} => header = pre[PathOf(n)]
            /\ ~InOutput(OkLine(n))
            /\ n \in processed =>
                /\ PathOf(n) \in written
                /\ InOutput(CompressedLine(n))
                /\ Decompressed(fs[PathOf(n)], pre[PathOf(n)])

\* a zero-byte candidate and a one-byte candidate have both been rewritten
C6_Witness ==
    /\ pc = "done"
    /\ \E n \in CandidateNames :
        pre[PathOf(n)] = <<>> /\ n \in processed /\ Decompressed(fs[PathOf(n)], <<>>)
    /\ \E n \in CandidateNames :
        Len(pre[PathOf(n)]) = 1 /\ n \in processed /\ PathOf(n) \in written

\* C7: when an I/O error has ended the run at a candidate, every candidate
\* whose loop body completed before it starts with 1f 8b, every candidate the
\* loop has not reached was never opened and holds the bytes it had before the
\* run with no line printed about it, the failing candidate has no OK or
\* Compressed line, and Done. is not printed.
C7_AbortLeavesRest ==
    pc = "aborted" =>
        /\ \A n \in processed : HasMagic(fs[PathOf(n)])
        /\ \A n \in todo :
            /\ PathOf(n) \notin opened \cup written
            /\ PathOf(n) \in Files => fs[PathOf(n)] = pre[PathOf(n)]
            /\ ~InOutput(OkLine(n))
            /\ ~InOutput(FixLine(n))
            /\ ~InOutput(CompressedLine(n))
        /\ filename \notin processed
        /\ ~InOutput(OkLine(filename))
        /\ ~InOutput(CompressedLine(filename))
        /\ ~InOutput(DoneLine)

\* the run was aborted at the second candidate after the first was compressed
C7_Witness ==
    /\ pc = "aborted"
    /\ filename \in CandidateNames
    /\ \E n \in processed : PathOf(n) \in written /\ InOutput(CompressedLine(n))

\* C8: every path the run opens is an entry of models_dir itself, and the
\* files in its subdirectories keep their bytes.
C8_NoRecursion ==
    /\ opened \cup written \subseteq {PathOf(n) : n \in Tree[models_dir]}
    /\ \A p \in Files \ {PathOf(n) : n \in Tree[models_dir]} : fs[p] = pre[p]

\* models_dir/a.frag has been compressed and models_dir/sub/a.frag has not
C8_Witness ==
    /\ pc = "done"
    /\ PathOf("a.frag") \in written
    /\ HasMagic(fs[PathOf("a.frag")])
    /\ fs[JoinPath(JoinPath(models_dir, "sub"), "a.frag")] = OtherContent

\* C9: the rewrite is done in place.  Between the open for writing and the
\* close, the file on disk is empty while its content is held in memory only,
\* and no other file on disk has received it; when the write is cut short
\* there, the file is left as a truncated stream that does not decompress.
C9_RewriteInPlace ==
    /\ pc = "write" =>
        /\ fs[filepath] = <<>>
        /\ data = pre[filepath]
        /\ \A p \in Files \ {filepath} :
            fs[p] = data \/ Decompressed(fs[p], data) =>
                pre[p] = data \/ Decompressed(fs[p], pre[p])
    /\ pc = "aborted" /\ filepath \in written =>
        /\ ~Gunzip(fs[filepath]).ok
        /\ data # <<>> => fs[filepath] # data
        /\ \E t \in 0..MaxTime :
            /\ IsPrefix(fs[filepath], Gzip(data, filepath, t))
            /\ fs[filepath] # Gzip(data, filepath, t)

\* the write of a two-byte file was cut short with nothing on disk, and no file
\* on disk holds the two bytes
C9_Witness ==
    /\ pc = "aborted"
    /\ filepath \in written
    /\ fs[filepath] = <<>>
    /\ Len(data) = 2
    /\ data = pre[filepath]
    /\ \A p \in Files : fs[p] # data /\ ~Decompressed(fs[p], data)

\* what a completed run does to a candidate, as a function of what the
\* candidate held before the run and of nothing else
C10_Outcome ==
    pc = "done" =>
        \A n \in CandidateNames :
            IF HasMagic(pre[PathOf(n)])
            THEN /\ InOutput(OkLine(n))
                 /\ ~InOutput(FixLine(n))
                 /\ fs[PathOf(n)] = pre[PathOf(n)]
            ELSE /\ InOutput(FixLine(n))
                 /\ InOutput(CompressedLine(n))
                 /\ ~InOutput(OkLine(n))
                 /\ Decompressed(fs[PathOf(n)], pre[PathOf(n)])

\* a step changes the bytes of no file but the candidate being processed
C10_Frame ==
    \A p \in Files : fs'[p] # fs[p] => p = filepath /\ filename \in CandidateNames

\* C10: in whatever order the loop takes the listed names, a completed run
\* takes for each candidate the branch its own initial bytes decide and leaves
\* it gzipped with its own initial bytes as decompressed content (or
\* unchanged), and no step changes another file's bytes.
C10_OrderIndependent == [](C10_Outcome) /\ [][C10_Frame]_vars

\* both candidates were compressed, b.frag before a.frag, from different bytes
C10_Witness ==
    /\ pc = "done"
    /\ pre[PathOf("a.frag")] # pre[PathOf("b.frag")]
    /\ \E i, j \in 1..Len(output) :
        /\ i < j
        /\ output[i] = CompressedLine("b.frag")
        /\ output[j] = CompressedLine("a.frag")

====
